---- MODULE Spec2Model ----
(***************************************************************************)
(* Model of app/models/recommendation.py: the RecommendationEngine's model *)
(* lifecycle (load_models / refresh_models against the MinIO store), its   *)
(* inference operations and the cross-region aggregator.                   *)
(*                                                                         *)
(* Conventions.  A pandas frame held by the engine or by the store is      *)
(* named by the identifier of the data set it was parsed from ("None" when *)
(* the attribute is None / the object is absent).  A fitted artifact       *)
(* (svd_model, user_similarities, item_similarities) is named by the data  *)
(* set it was fitted on: the fit is deterministic (random_state=42), so    *)
(* equal names are equal values.  The entries of a similarity matrix are   *)
(* not computed; an operation that reads them draws any matrix the fit can *)
(* produce (tenths: 10 is similarity 1.0).  Scores are exact rationals.    *)
(***************************************************************************)
EXTENDS Integers, Sequences, FiniteSets, TLC

VARIABLES
    processed_bucket,   \* store: [matrix, features] objects of processed-<region>
    models_bucket,      \* store: [exists, svd, user_sim, item_sim] of models-<region>
    user_item_matrix,   \* engine.user_item_matrix
    product_features,   \* engine.product_features
    svd_model,          \* engine.svd_model
    user_similarities,  \* engine.user_similarities
    item_similarities,  \* engine.item_similarities
    models_loaded,      \* engine.models_loaded
    n_loads,            \* number of load_models calls made so far
    origin,             \* history: the load_models call that assigned each attribute
    ret,                \* outcome of the last engine call or API request
    cache,              \* Redis: the cached responses of the user endpoint
    fanout              \* the cross-region call in progress: its peer requests

vars == <<processed_bucket, models_bucket, user_item_matrix, product_features,
          svd_model, user_similarities, item_similarities, models_loaded,
          n_loads, origin, ret, cache, fanout>>

engine == <<user_item_matrix, product_features, svd_model,
            user_similarities, item_similarities, models_loaded>>

store == <<processed_bucket, models_bucket>>

----------------------------------------------------------------------------
(* Bounds *)

MaxLoads == 3       \* load_models calls explored (start-up load and refreshes)
MaxCount == 2       \* largest count passed to an inference call
MaxRecs == 2        \* longest result list of a region given to the aggregator

----------------------------------------------------------------------------
(* Program constants *)

SIMILARITY_THRESHOLD == 1      \* 0.1, in tenths
NEIGHBOURHOOD == 20            \* [1:21] slice of the neighbour ranking
OVERSAMPLE == 2                \* head(count * 2) in the popularity rankers
REGION == "us-east-1"

----------------------------------------------------------------------------
(* Data the store can hold *)

NoneId == "None"

\* user_item_matrix.csv after read_csv(...).set_index('user_id'): row index,
\* column index, and for every user the observed (non-NaN) cells.
\*   D0  a file with a header and no rows
\*   D1  one user, one product
\*   D2  weights that are zero or negative
\*   D3  A:{X:5}, B:{X:4,Y:3}, C:{Y:5,Z:2}
Dataset(d) ==
    CASE d = "D0" -> [index |-> <<>>, columns |-> <<"X", "Y">>,
                      cell |-> <<>>]
      [] d = "D1" -> [index |-> <<"A">>, columns |-> <<"X">>,
                      cell |-> [u \in {"A"} |-> [p \in {"X"} |-> 5]]]
      [] d = "D2" -> [index |-> <<"A", "B">>, columns |-> <<"X", "Y">>,
                      cell |-> [u \in {"A", "B"} |->
                                  IF u = "A" THEN [p \in {"X"} |-> 0]
                                  ELSE [p \in {"X", "Y"} |->
                                          IF p = "X" THEN 0 ELSE -3]]]
      [] d = "D3" -> [index |-> <<"A", "B", "C">>,
                      columns |-> <<"X", "Y", "Z">>,
                      cell |-> [u \in {"A", "B", "C"} |->
                                  IF u = "A" THEN [p \in {"X"} |-> 5]
                                  ELSE IF u = "B"
                                       THEN [p \in {"X", "Y"} |->
                                               IF p = "X" THEN 4 ELSE 3]
                                       ELSE [p \in {"Y", "Z"} |->
                                               IF p = "Y" THEN 5 ELSE 2]]]

DatasetIds == {"D0", "D1", "D2", "D3"}

\* products_with_features.csv after set_index('product_id'): the category of
\* the products that have a row.  "BAD" is a file without a product_id column.
Features(f) ==
    CASE f = "F1" -> [p \in {"X", "Y"} |-> IF p = "X" THEN "toys" ELSE "books"]
      [] f = "F2" -> [p \in {"Y", "Z"} |-> IF p = "Y" THEN "toys" ELSE "books"]

FeatureIds == {"F1", "F2"}
BadFeatures == "BAD"

Range(s) == {s[i] : i \in DOMAIN s}

NRows(d) == IF d = NoneId THEN 0 ELSE Len(Dataset(d).index)
NCols(d) == IF d = NoneId THEN 0 ELSE Len(Dataset(d).columns)

----------------------------------------------------------------------------
(* Model Trainer *)

SimValues == {-5, 0, 5, 10}

\* cosine_similarity of n factor rows: symmetric, unit diagonal, entries
\* between -1 and 1 (factor rows can point in opposite directions).  The
\* factorization itself is not computed; every such matrix is a possible
\* outcome of the fit.
CosineSimilarity(n) ==
    LET pairs == {<<i, j>> \in (1..n) \X (1..n) : i < j}
    IN  {[i \in 1..n |-> [j \in 1..n |->
            IF i = j THEN 10 ELSE IF i < j THEN t[<<i, j>>] ELSE t[<<j, i>>]]] :
         t \in [pairs -> SimValues]}

\* _train_models raises when the matrix is None or check_array rejects it
\* (no rows).
TrainRaises(m) == m = NoneId \/ NRows(m) = 0 \/ NCols(m) = 0

\* svd_model after a failed _train_models call: the constructor at line 137
\* has run unless the None check raised first.
SvdAfterFailedTrain(m, svd) == IF m = NoneId THEN svd ELSE "unfitted"

----------------------------------------------------------------------------
(* Model Store: _load_existing_models *)

Artifacts == {"svd_model.pkl", "user_similarities.pkl", "item_similarities.pkl"}

\* `if user_sim_data:` on a downloaded array: absent -> skipped; an array
\* with more than one element -> ValueError (ambiguous truth value); a
\* one-element array -> its element; an empty array -> False.
Truth(a, n) ==
    IF a = NoneId \/ n = 0 THEN "false"
    ELSE IF n > 1 THEN "raise"
    ELSE "true"

\* Result of _load_existing_models (lines 97-127): the attributes after the
\* call, the value returned, the artifacts downloaded and the attributes
\* assigned.
LoadExistingModels(svd, usim, isim) ==
    IF ~models_bucket.exists
    THEN [svd |-> svd, usim |-> usim, isim |-> isim, found |-> FALSE,
          read |-> {}, assigned |-> {}]
    ELSE
      LET got_s == models_bucket.svd # NoneId
          svd2  == IF got_s THEN models_bucket.svd ELSE svd
          r1    == IF got_s THEN {"svd_model.pkl"} ELSE {}
          a1    == IF got_s THEN {"svd"} ELSE {}
          tu    == Truth(models_bucket.user_sim, NRows(models_bucket.user_sim))
          ti    == Truth(models_bucket.item_sim, NCols(models_bucket.item_sim))
          r2    == IF models_bucket.user_sim # NoneId
                   THEN r1 \cup {"user_similarities.pkl"} ELSE r1
          r3    == IF models_bucket.item_sim # NoneId
                   THEN r2 \cup {"item_similarities.pkl"} ELSE r2
      IN  IF tu = "raise"
          THEN [svd |-> svd2, usim |-> usim, isim |-> isim, found |-> FALSE,
                read |-> r2, assigned |-> a1]
          ELSE
            LET usim2 == IF tu = "true" THEN models_bucket.user_sim ELSE usim
                a2    == IF tu = "true" THEN a1 \cup {"user_sim"} ELSE a1
            IN  IF ti = "raise"
                THEN [svd |-> svd2, usim |-> usim2, isim |-> isim,
                      found |-> FALSE, read |-> r3, assigned |-> a2]
                ELSE
                  LET isim2 == IF ti = "true" THEN models_bucket.item_sim
                               ELSE isim
                      a3    == IF ti = "true" THEN a2 \cup {"item_sim"}
                               ELSE a2
                  IN  [svd |-> svd2, usim |-> usim2, isim |-> isim2,
                       found |-> (svd2 # NoneId /\ usim2 # NoneId
                                   /\ isim2 # NoneId),
                       read |-> r3, assigned |-> a3]

----------------------------------------------------------------------------
(* Model Store: _save_models *)

\* The bucket after _save_models: it is created when missing (create_bucket
\* swallows S3Error and may leave it missing), then each non-None artifact
\* is uploaded; upload_model swallows every error, so any subset of the
\* uploads may have taken effect.
SaveModels(svd, usim, isim, created, uploaded) ==
    LET exists2 == models_bucket.exists \/ created
        up(a)   == exists2 /\ a \in uploaded
    IN  [exists   |-> exists2,
         svd      |-> IF up("svd_model.pkl") THEN svd ELSE models_bucket.svd,
         user_sim |-> IF up("user_similarities.pkl") THEN usim
                      ELSE models_bucket.user_sim,
         item_sim |-> IF up("item_similarities.pkl") THEN isim
                      ELSE models_bucket.item_sim]

----------------------------------------------------------------------------
(* Outcome record of an engine call.  For a load: trained tells whether     *)
(* _train_models was called, read which artifacts were downloaded and      *)
(* store_after what the two buckets held when the call ended.              *)

NoRet ==
    [op |-> "none", status |-> "none", path |-> "none", items |-> <<>>,
     user_id |-> NoneId, product_id |-> NoneId, count |-> 0,
     exclude_purchased |-> FALSE, categories |-> {}, category |-> NoneId,
     trained |-> FALSE, read |-> {}, matrix_downloaded |-> FALSE,
     was_loaded |-> FALSE, regions |-> <<>>, method |-> NoneId,
     region_results |-> <<>>, produced |-> {}, min_rating |-> 0,
     passing |-> <<>>, sim_scores |-> <<>>, store_after |-> <<>>,
     force_refresh |-> FALSE, generated_for |-> <<>>,
     neighbours |-> {}, scores |-> <<>>]

LoadOps == {"load_models", "refresh_models"}

\* no cross-region call in progress
NoFanout == [pc |-> "idle", tasks |-> <<>>, status |-> <<>>, k |-> 0]

InferenceOps == {"get_user_recommendations", "get_similar_products",
                 "get_trending_products",
                 "get_cross_region_recommendations"}

----------------------------------------------------------------------------
(* load_models *)

Stamp(o, fields) == [f \in DOMAIN o |-> IF f \in fields THEN n_loads + 1 ELSE o[f]]

\* One whole call of load_models (lines 47-70), named op in the outcome.
load_models(op) ==
    /\ n_loads < MaxLoads
    /\ n_loads' = n_loads + 1
    /\ UNCHANGED <<processed_bucket, cache, fanout>>
    /\ LET got_m == processed_bucket.matrix # NoneId
           m1    == IF got_m THEN processed_bucket.matrix ELSE user_item_matrix
           bad_f == processed_bucket.features = BadFeatures
           got_f == processed_bucket.features \notin {NoneId, BadFeatures}
           f1    == IF got_f THEN processed_bucket.features ELSE product_features
           o1    == Stamp(origin, IF got_m THEN {"matrix"} ELSE {})
           base  == [NoRet EXCEPT !.op = op, !.matrix_downloaded = got_m,
                                  !.was_loaded = models_loaded,
                                  !.store_after = <<processed_bucket,
                                                    models_bucket>>]
       IN
       IF bad_f
       THEN \* set_index('product_id') raises after the matrix was assigned
            /\ user_item_matrix' = m1
            /\ origin' = o1
            /\ ret' = [base EXCEPT !.status = "raised"]
            /\ UNCHANGED <<product_features, svd_model, user_similarities,
                           item_similarities, models_loaded, models_bucket>>
       ELSE
         LET ex == LoadExistingModels(svd_model, user_similarities,
                                      item_similarities)
             o2 == Stamp(Stamp(o1, IF got_f THEN {"features"} ELSE {}),
                         ex.assigned)
         IN
         /\ user_item_matrix' = m1
         /\ product_features' = f1
         /\ IF ex.found
            THEN /\ svd_model' = ex.svd
                 /\ user_similarities' = ex.usim
                 /\ item_similarities' = ex.isim
                 /\ models_loaded' = TRUE
                 /\ origin' = o2
                 /\ ret' = [base EXCEPT !.status = "ok", !.read = ex.read]
                 /\ UNCHANGED models_bucket
            ELSE IF TrainRaises(m1)
            THEN /\ svd_model' = SvdAfterFailedTrain(m1, ex.svd)
                 /\ user_similarities' = ex.usim
                 /\ item_similarities' = ex.isim
                 /\ origin' = IF m1 # NoneId THEN Stamp(o2, {"svd"}) ELSE o2
                 /\ ret' = [base EXCEPT !.status = "raised", !.read = ex.read,
                                        !.trained = TRUE]
                 /\ UNCHANGED <<models_loaded, models_bucket>>
            ELSE \E created \in BOOLEAN, uploaded \in SUBSET Artifacts :
                 /\ svd_model' = m1
                 /\ user_similarities' = m1
                 /\ item_similarities' = m1
                 /\ models_loaded' = TRUE
                 /\ origin' = Stamp(o2, {"svd", "user_sim", "item_sim"})
                 /\ models_bucket' = SaveModels(m1, m1, m1, created, uploaded)
                 /\ ret' = [base EXCEPT !.status = "ok", !.read = ex.read,
                                        !.trained = TRUE,
                                        !.store_after = <<processed_bucket,
                                                          models_bucket'>>]

\* asyncio.create_task(recommendation_engine.load_models()) at start-up
StartupLoad ==
    /\ n_loads = 0
    /\ load_models("load_models")

\* refresh_models (lines 575-584): load_models again, errors re-raised
refresh_models ==
    /\ n_loads > 0
    /\ load_models("refresh_models")

----------------------------------------------------------------------------
(* The store's other writers: the data pipeline replaces the processed     *)
(* objects, an operator removes model artifacts.                           *)

PutMatrix ==
    /\ \E d \in DatasetIds \cup {NoneId} :
         /\ d # processed_bucket.matrix
         /\ processed_bucket' = [processed_bucket EXCEPT !.matrix = d]
    /\ UNCHANGED <<models_bucket, engine, n_loads, origin, ret, cache, fanout>>

PutFeatures ==
    /\ \E f \in FeatureIds \cup {NoneId, BadFeatures} :
         /\ f # processed_bucket.features
         /\ processed_bucket' = [processed_bucket EXCEPT !.features = f]
    /\ UNCHANGED <<models_bucket, engine, n_loads, origin, ret, cache, fanout>>

RemoveModels ==
    /\ models_bucket.exists
    /\ \E keep_bucket \in BOOLEAN :
         models_bucket' = [exists |-> keep_bucket, svd |-> NoneId,
                           user_sim |-> NoneId, item_sim |-> NoneId]
    /\ models_bucket' # models_bucket
    /\ UNCHANGED <<processed_bucket, engine, n_loads, origin, ret, cache, fanout>>

----------------------------------------------------------------------------
(* Scores: exact rationals <<num, den>> with den > 0; <<0, 0>> is a float  *)
(* that is not a number or not finite (x / 0).                             *)

Abs(x) == IF x < 0 THEN -x ELSE x

RECURSIVE GCD(_, _)
GCD(a, b) == IF b = 0 THEN a ELSE GCD(b, a % b)

NaN == <<0, 0>>

Rat(n, d) ==
    IF d = 0 THEN NaN
    ELSE LET g == GCD(Abs(n), Abs(d))
             sg == IF d < 0 THEN -1 ELSE 1
         IN  <<(sg * n) \div g, (sg * d) \div g>>

RatLess(a, b) == a[1] * b[2] < b[1] * a[2]

\* min(score, 1.0): a NaN first argument is returned unchanged
Min1(sc) == IF sc[2] = 0 THEN sc ELSE IF sc[1] > sc[2] THEN <<1, 1>> ELSE sc

\* a score field without its bounds
ValidUnit_Unbounded(sc) == TRUE

\* Field(..., ge=0.0, le=1.0) of RecommendationItem.score and
\* SimilarProduct.similarity_score
ValidUnit(sc) == sc[2] > 0 /\ 0 <= sc[1] /\ sc[1] <= sc[2]

\* a trend_score field without its bound
ValidNonNeg_Unbounded(sc) == TRUE

\* Field(..., ge=0.0) of TrendingProduct.trend_score
ValidNonNeg(sc) == sc[2] > 0 /\ 0 <= sc[1]

\* sorted(xs, key=score, reverse=True): stable, equal scores keep their order
RECURSIVE InsertDesc(_, _)
InsertDesc(x, s) ==
    IF s = <<>> THEN <<x>>
    ELSE IF RatLess(Head(s).score, x.score) THEN <<x>> \o s
    ELSE <<Head(s)>> \o InsertDesc(x, Tail(s))

RECURSIVE SortDesc(_)
SortDesc(s) ==
    IF s = <<>> THEN <<>>
    ELSE InsertDesc(s[Len(s)], SortDesc(SubSeq(s, 1, Len(s) - 1)))

Take(s, n) == SubSeq(s, 1, IF n < Len(s) THEN n ELSE Len(s))

Perms(n) == {p \in [1..n -> 1..n] : \A i, j \in 1..n : p[i] = p[j] => i = j}

\* np.argsort(row): the indices in ascending order of value; the order of
\* equal values is not specified by the default sort kind.
ArgSort(row) ==
    {p \in Perms(Len(row)) :
        \A i \in 1..(Len(row) - 1) : row[p[i]] <= row[p[i + 1]]}

Reverse(s) == [i \in 1..Len(s) |-> s[Len(s) + 1 - i]]

IndexOf(s, x) == CHOOSE i \in 1..Len(s) : s[i] = x

----------------------------------------------------------------------------
(* Popularity Ranker *)

RECURSIVE SumOver(_, _)
SumOver(f, S) ==
    IF S = {} THEN 0
    ELSE LET x == CHOOSE y \in S : TRUE IN f[x] + SumOver(f, S \ {x})

\* user_item_matrix.sum(axis=0): per column, the sum of the observed cells
Popularity(M) ==
    [k \in 1..Len(M.columns) |->
        LET p == M.columns[k]
            have == {u \in Range(M.index) : p \in DOMAIN M.cell[u]}
        IN  SumOver([u \in have |-> M.cell[u][p]], have)]

\* sort_values(ascending=False): column positions by descending sum; the
\* order of equal sums is not specified by the default sort kind.
SortValuesDesc(pop) == {Reverse(p) : p \in ArgSort(pop)}

MaxOf(pop) == CHOOSE x \in Range(pop) : \A y \in Range(pop) : y <= x

\* _create_recommendation_item (lines 292-334): <<>> for None, else <<item>>
create_recommendation_item(product_id, score, categories, min_rating) ==
    LET known == /\ product_features # NoneId
                 /\ product_id \in DOMAIN Features(product_features)
        category == IF known THEN Features(product_features)[product_id]
                    ELSE NoneId
        \* product_info never has a 'rating' key
        has_rating == FALSE
        sc == Min1(score)
    IN  IF categories # {} /\ category # NoneId /\ category \notin categories
        THEN <<>>
        ELSE IF min_rating # 0 /\ has_rating
        THEN <<>>
        ELSE IF ~ValidUnit(sc)
        THEN <<>>      \* pydantic ValidationError, caught at line 332
        ELSE <<[product_id |-> product_id, category |-> category,
                score |-> sc, region |-> REGION]>>

RECURSIVE PopularLoop(_, _, _, _, _, _, _, _)
PopularLoop(M, pop, order, k, limit, need, categories, min_rating) ==
    \* the loop of lines 277-284 from position k of the ranking on, with
    \* need more items to append before the break
    IF k > Len(order) \/ k > limit THEN <<>>
    ELSE LET it == create_recommendation_item(
                       M.columns[order[k]],
                       Rat(pop[order[k]], MaxOf(pop)), categories, min_rating)
         IN  IF it = <<>>
             THEN PopularLoop(M, pop, order, k + 1, limit, need, categories,
                              min_rating)
             ELSE IF need <= 1 THEN it
             ELSE it \o PopularLoop(M, pop, order, k + 1, limit, need - 1,
                                    categories, min_rating)

\* _get_popular_recommendations (lines 261-290); order is the ranking that
\* sort_values produced
get_popular_recommendations(count, categories, min_rating, order) ==
    IF user_item_matrix = NoneId THEN <<>>
    ELSE LET M == Dataset(user_item_matrix)
         IN  PopularLoop(M, Popularity(M), order, 1, count * OVERSAMPLE,
                         count, categories, min_rating)

PopOrders ==
    IF user_item_matrix = NoneId THEN {<<>>}
    ELSE SortValuesDesc(Popularity(Dataset(user_item_matrix)))

----------------------------------------------------------------------------
(* Recommender *)

\* the accumulation with = in place of +=
AddScore_Overwrite(acc, p, v) ==
    IF \E i \in 1..Len(acc) : acc[i].product_id = p
    THEN [i \in 1..Len(acc) |->
            IF acc[i].product_id = p
            THEN [acc[i] EXCEPT !.tenths = v] ELSE acc[i]]
    ELSE Append(acc, [product_id |-> p, tenths |-> v])

\* product_scores[product_id] += sim_score * rating, keeping the dict's
\* insertion order; scores in tenths
AddScore(acc, p, v) ==
    IF \E i \in 1..Len(acc) : acc[i].product_id = p
    THEN [i \in 1..Len(acc) |->
            IF acc[i].product_id = p
            THEN [acc[i] EXCEPT !.tenths = @ + v] ELSE acc[i]]
    ELSE Append(acc, [product_id |-> p, tenths |-> v])

\* lines 227-232 for one neighbour, from column k on
RECURSIVE AddRatings(_, _, _, _, _, _)
AddRatings(acc, M, sim_user_id, sim_score, user_purchased, k) ==
    IF k > Len(M.columns) THEN acc
    ELSE LET p == M.columns[k]
             row == M.cell[sim_user_id]
         IN  AddRatings(
                 IF p \in DOMAIN row /\ p \notin user_purchased
                 THEN AddScore(acc, p, sim_score * row[p]) ELSE acc,
                 M, sim_user_id, sim_score, user_purchased, k + 1)

\* the loop of lines 219-232 from position k of similar_users on;
\* raised: index[sim_user_idx] was out of bounds; neighbours: the users
\* whose ratings were added
RECURSIVE NeighbourLoop(_, _, _, _, _, _)
NeighbourLoop(acc, M, user_sim_scores, similar_users, user_purchased, k) ==
    IF k > Len(similar_users)
    THEN [raised |-> FALSE, scores |-> acc, neighbours |-> {}]
    ELSE LET sim_user_idx == similar_users[k]
         IN  IF sim_user_idx > Len(M.index)
             THEN [raised |-> TRUE, scores |-> acc, neighbours |-> {}]
             ELSE IF user_sim_scores[sim_user_idx] < SIMILARITY_THRESHOLD
             THEN [raised |-> FALSE, scores |-> acc, neighbours |-> {}]
             ELSE LET rest == NeighbourLoop(
                                  AddRatings(acc, M, M.index[sim_user_idx],
                                             user_sim_scores[sim_user_idx],
                                             user_purchased, 1),
                                  M, user_sim_scores, similar_users,
                                  user_purchased, k + 1)
                  IN  [rest EXCEPT
                         !.neighbours = @ \cup {M.index[sim_user_idx]}]

\* lines 237-242: an item for each of the given candidates that passes
RECURSIVE CreateItems(_, _, _)
CreateItems(cands, categories, min_rating) ==
    IF cands = <<>> THEN <<>>
    ELSE create_recommendation_item(Head(cands).product_id,
                                    Head(cands).score, categories, min_rating)
         \o CreateItems(Tail(cands), categories, min_rating)

\* the padding loop without the existing_ids test
PadWith_NoDedup(recs, existing_ids, popular_recs) == recs \o popular_recs

\* lines 249-252: the popular items whose id was not selected before
RECURSIVE PadWith(_, _, _)
PadWith(recs, existing_ids, popular_recs) ==
    IF popular_recs = <<>> THEN recs
    ELSE PadWith(IF Head(popular_recs).product_id \in existing_ids
                 THEN recs ELSE Append(recs, Head(popular_recs)),
                 existing_ids, Tail(popular_recs))

\* np.argsort(user_sim_scores)[::-1][1:21]
SimilarUsers(order) ==
    SubSeq(Reverse(order), 2,
           IF Len(order) < NEIGHBOURHOOD + 1 THEN Len(order)
           ELSE NEIGHBOURHOOD + 1)

\* the cold-start return without the caller's filters
ColdStart_Unfiltered(count, categories, min_rating, pop_order) ==
    [status |-> "ok", path |-> "cold_start", passing |-> <<>>,
     neighbours |-> {}, scores |-> <<>>,
     items |-> get_popular_recommendations(count, {}, 0, pop_order)]

\* lines 202-204: user_id is not in the row index
ColdStart(count, categories, min_rating, pop_order) ==
    [status |-> "ok", path |-> "cold_start", passing |-> <<>>,
     neighbours |-> {}, scores |-> <<>>,
     items |-> get_popular_recommendations(count, categories, min_rating,
                                           pop_order)]

\* the exception leaving get_user_recommendations instead of being handled
ExceptFallback_Reraise(count, categories, min_rating, pop_order) ==
    [status |-> "raised", path |-> "fallback", passing |-> <<>>,
     neighbours |-> {}, scores |-> <<>>, items |-> <<>>]

\* lines 256-259: the handler of every exception raised in lines 200-254
ExceptFallback(count, categories, min_rating, pop_order) ==
    [status |-> "ok", path |-> "fallback", passing |-> <<>>,
     neighbours |-> {}, scores |-> <<>>,
     items |-> get_popular_recommendations(count, categories, min_rating,
                                           pop_order)]

\* get_user_recommendations (lines 187-259).  user_sim_scores is the row of
\* user_similarities read at line 210, order the result of np.argsort on it
\* and pop_order the ranking sort_values produces.  passing lists, in rank
\* order, the neighbour-scored candidates that pass the filters; neighbours
\* and scores are the contributing users and product_scores (in tenths)
\* when the neighbour loop ended.
get_user_recommendations(user_id, count, exclude_purchased, min_rating, categories, user_sim_scores, order, pop_order) ==
    IF ~models_loaded
    THEN [status |-> "raised", path |-> "not_loaded", passing |-> <<>>,
          neighbours |-> {}, scores |-> <<>>, items |-> <<>>]
    ELSE
      LET fallback == ExceptFallback(count, categories, min_rating, pop_order)
      IN
      IF user_item_matrix = NoneId THEN fallback    \* AttributeError
      ELSE
        LET M == Dataset(user_item_matrix)
        IN
        IF user_id \notin Range(M.index)
        THEN ColdStart(count, categories, min_rating, pop_order)
        ELSE
          LET user_idx == IndexOf(M.index, user_id)
          IN
          IF user_idx > NRows(user_similarities)
          THEN fallback                             \* IndexError
          ELSE
            LET similar_users == SimilarUsers(order)
                user_purchased == IF exclude_purchased
                                  THEN DOMAIN M.cell[user_id] ELSE {}
                walk == NeighbourLoop(<<>>, M, user_sim_scores,
                                      similar_users, user_purchased, 1)
            IN
            IF walk.raised THEN fallback            \* IndexError
            ELSE
              LET cands == [i \in 1..Len(walk.scores) |->
                              [product_id |-> walk.scores[i].product_id,
                               score |-> Rat(walk.scores[i].tenths, 10)]]
                  sorted_products == SortDesc(cands)
                  recs == CreateItems(Take(sorted_products, count),
                                      categories, min_rating)
                  padded ==
                      IF Len(recs) < count
                      THEN PadWith(recs,
                                   {recs[i].product_id : i \in 1..Len(recs)},
                                   get_popular_recommendations(
                                       count - Len(recs), categories,
                                       min_rating, pop_order))
                      ELSE recs
              IN  [status |-> "ok", path |-> "personal",
                   neighbours |-> walk.neighbours, scores |-> walk.scores,
                   passing |-> CreateItems(sorted_products, categories,
                                           min_rating),
                   items |-> Take(padded, count)]

\* The rows user_similarities can hold for user_id (<<>> when the lookup
\* is not reached or fails)
UserSimRows(user_id) ==
    IF user_item_matrix = NoneId
       \/ user_id \notin Range(Dataset(user_item_matrix).index)
       \/ IndexOf(Dataset(user_item_matrix).index, user_id)
            > NRows(user_similarities)
    THEN {<<>>}
    ELSE {sims[IndexOf(Dataset(user_item_matrix).index, user_id)] :
            sims \in CosineSimilarity(NRows(user_similarities))}

----------------------------------------------------------------------------
(* Item Similarity Lookup *)

\* lines 354-371: a SimilarProduct for each index; raised when an index is
\* outside the column index or the score fails the model's validation
RECURSIVE SimilarLoop(_, _, _, _)
SimilarLoop(M, sim_scores, similar_indices, k) ==
    IF k > Len(similar_indices) THEN [raised |-> FALSE, items |-> <<>>]
    ELSE LET idx == similar_indices[k]
             sc == Rat(sim_scores[idx], 10)
         IN  IF idx > Len(M.columns) \/ ~ValidUnit(sc)
             THEN [raised |-> TRUE, items |-> <<>>]
             ELSE LET p == M.columns[idx]
                      known == /\ product_features # NoneId
                               /\ p \in DOMAIN Features(product_features)
                      rest == SimilarLoop(M, sim_scores, similar_indices,
                                          k + 1)
                  IN  [raised |-> rest.raised,
                       items |->
                         <<[product_id |-> p,
                            category |-> IF known
                                         THEN Features(product_features)[p]
                                         ELSE NoneId,
                            score |-> sc, region |-> NoneId]>>
                         \o rest.items]

\* get_similar_products (lines 336-377); sim_scores is the row of
\* item_similarities read at line 350, order the result of np.argsort on it
get_similar_products(product_id, count, sim_scores, order) ==
    IF ~models_loaded \/ item_similarities = NoneId THEN <<>>
    ELSE IF user_item_matrix = NoneId THEN <<>>       \* AttributeError
    ELSE
      LET M == Dataset(user_item_matrix)
      IN  IF product_id \notin Range(M.columns) THEN <<>>
          ELSE
            LET product_idx == IndexOf(M.columns, product_id)
            IN  IF product_idx > NCols(item_similarities)
                THEN <<>>                             \* IndexError
                ELSE
                  LET similar_indices ==
                          SubSeq(Reverse(order), 2,
                                 IF Len(order) < count + 1 THEN Len(order)
                                 ELSE count + 1)
                      loop == SimilarLoop(M, sim_scores, similar_indices, 1)
                  IN  IF loop.raised THEN <<>> ELSE loop.items

\* The rows item_similarities can hold for product_id
ItemSimRows(product_id) ==
    IF user_item_matrix = NoneId
       \/ product_id \notin Range(Dataset(user_item_matrix).columns)
       \/ IndexOf(Dataset(user_item_matrix).columns, product_id)
            > NCols(item_similarities)
    THEN {<<>>}
    ELSE {sims[IndexOf(Dataset(user_item_matrix).columns, product_id)] :
            sims \in CosineSimilarity(NCols(item_similarities))}

----------------------------------------------------------------------------
(* Trending Ranker *)

\* the loop of lines 396-423 from position k of the ranking on; raised: a
\* TrendingProduct failed validation (trend_score or interaction_count < 0,
\* or trend_score not a number)
RECURSIVE TrendingLoop(_, _, _, _, _, _, _)
TrendingLoop(M, pop, order, k, limit, need, category) ==
    IF k > Len(order) \/ k > limit THEN [raised |-> FALSE, items |-> <<>>]
    ELSE
      LET p == M.columns[order[k]]
          known == /\ product_features # NoneId
                   /\ p \in DOMAIN Features(product_features)
          product_category == IF known THEN Features(product_features)[p]
                              ELSE NoneId
          trend_score == Rat(pop[order[k]], MaxOf(pop))
      IN
      IF category # NoneId /\ product_category # category
      THEN TrendingLoop(M, pop, order, k + 1, limit, need, category)
      ELSE IF ~ValidNonNeg(trend_score) \/ pop[order[k]] < 0
      THEN [raised |-> TRUE, items |-> <<>>]
      ELSE
        LET it == [product_id |-> p, category |-> product_category,
                   score |-> trend_score, region |-> REGION,
                   interaction_count |-> pop[order[k]]]
            rest == IF need <= 1 THEN [raised |-> FALSE, items |-> <<>>]
                    ELSE TrendingLoop(M, pop, order, k + 1, limit, need - 1,
                                      category)
        IN  [raised |-> rest.raised, items |-> <<it>> \o rest.items]

\* get_trending_products (lines 379-429).  The growth_rate attached to each
\* item is a random number and is left out of the item.
get_trending_products(count, category, order) ==
    IF user_item_matrix = NoneId THEN <<>>
    ELSE LET M == Dataset(user_item_matrix)
             loop == TrendingLoop(M, Popularity(M), order, 1,
                                  count * OVERSAMPLE, count, category)
         IN  IF loop.raised THEN <<>> ELSE loop.items

----------------------------------------------------------------------------
(* Cross-Region Aggregator *)

Ids(recs) == {recs[i].product_id : i \in 1..Len(recs)}

\* MergeRecs without the seen_products test
MergeRecs_KeepDuplicates(all_recs, recs) == all_recs \o recs

\* lines 526-530: append the recs whose product id was not seen before
RECURSIVE MergeRecs(_, _)
MergeRecs(all_recs, recs) ==
    IF recs = <<>> THEN all_recs
    ELSE MergeRecs(IF Head(recs).product_id \in Ids(all_recs) THEN all_recs
                   ELSE Append(all_recs, Head(recs)),
                   Tail(recs))

RECURSIVE MergeRegions(_, _)
MergeRegions(all_recs, region_results) ==
    IF region_results = <<>> THEN all_recs
    ELSE MergeRegions(MergeRecs(all_recs, Head(region_results).recs),
                      Tail(region_results))

\* BestRecs without the score comparison: the first instance is kept
BestRecs_FirstWins(product_best, recs) == MergeRecs(product_best, recs)

\* lines 539-542: product_best as the sequence of its values in key order
RECURSIVE BestRecs(_, _)
BestRecs(product_best, recs) ==
    IF recs = <<>> THEN product_best
    ELSE LET rec == Head(recs)
         IN  BestRecs(
                 IF rec.product_id \notin Ids(product_best)
                 THEN Append(product_best, rec)
                 ELSE [i \in 1..Len(product_best) |->
                         IF /\ product_best[i].product_id = rec.product_id
                            /\ RatLess(product_best[i].score, rec.score)
                         THEN rec ELSE product_best[i]],
                 Tail(recs))

RECURSIVE BestRegions(_, _)
BestRegions(product_best, region_results) ==
    IF region_results = <<>> THEN product_best
    ELSE BestRegions(BestRecs(product_best, Head(region_results).recs),
                     Tail(region_results))

\* lines 521-533: the MERGE branch
MergeAggregation(region_results, count) ==
    Take(SortDesc(MergeRegions(<<>>, region_results)), count)

\* lines 535-544: the HIGHEST_SCORE branch
HighestScoreAggregation(region_results, count) ==
    Take(SortDesc(BestRegions(<<>>, region_results)), count)

\* _aggregate_cross_region_results with the other methods sent to the
\* HIGHEST_SCORE branch
aggregate_UnknownAsHighest(region_results, count, method) ==
    IF region_results = <<>> THEN <<>>
    ELSE IF method = "merge" THEN MergeAggregation(region_results, count)
    ELSE HighestScoreAggregation(region_results, count)

\* _aggregate_cross_region_results (lines 510-547); region_results is the
\* dict as the sequence of its (region, recs) entries in insertion order.
\* Every other method falls through to the call of itself at line 547.
RECURSIVE aggregate_cross_region_results(_, _, _)
aggregate_cross_region_results(region_results, count, method) ==
    IF region_results = <<>> THEN <<>>
    ELSE IF method = "merge" THEN MergeAggregation(region_results, count)
    ELSE IF method = "highest_score"
    THEN HighestScoreAggregation(region_results, count)
    ELSE aggregate_cross_region_results(region_results, count, "merge")

AggregationMethod == {"merge", "highest_score", "weighted_average",
                      "round_robin"}

REGION_ENDPOINTS == {"us-east-1", "us-west-1", "eu-west-1", "ap-south-1"}

\* lines 444-463: the entries added for the remote regions of the list, in
\* order; responses[r] is what _query_region_recommendations returned for r
\* (<<>> for None)
RECURSIVE RemoteResults(_, _, _)
RemoteResults(acc, regions, responses) ==
    IF regions = <<>> THEN acc
    ELSE LET region == Head(regions)
         IN  RemoteResults(
                 IF /\ region # REGION
                    /\ region \in REGION_ENDPOINTS
                    /\ responses[region] # <<>>
                 THEN Append(acc, [region |-> region,
                                   recs |-> responses[region]])
                 ELSE acc,
                 Tail(regions), responses)

\* get_cross_region_recommendations (lines 431-487); local is the outcome of
\* the call of get_user_recommendations(user_id, count) at line 466
get_cross_region_recommendations(regions, count, method, responses, local) ==
    IF local.status = "raised"
    THEN [status |-> "error", items |-> <<>>, region_results |-> <<>>]
    ELSE LET remote == RemoteResults(<<>>, regions, responses)
             region_results ==
                 IF local.items # <<>>
                 THEN Append(remote, [region |-> REGION,
                                      recs |-> local.items])
                 ELSE remote
         IN  [status |-> "ok",
              items |-> aggregate_cross_region_results(region_results,
                                                       count, method),
              region_results |-> region_results]

----------------------------------------------------------------------------
(* Requests *)

UserIds == {"A", "B", "C", "N"}           \* N has no row in any data set
ProductIds == {"X", "Y", "Z", "W"}        \* W has no column in any data set
CategoryFilters == {{}, {"books"}}        \* {} is categories=None
Categories == {NoneId, "books"}
MinRatings == {0, 3}                      \* 0 is min_rating=None
RemoteRegions == {"us-west-1", "eu-west-1"}
RegionLists == {<<"us-east-1">>, <<"us-west-1">>,
                <<"us-west-1", "eu-west-1">>, <<"us-east-1", "eu-west-1">>}

RItem(p, n, d, r) ==
    [product_id |-> p, category |-> NoneId, score |-> <<n, d>>, region |-> r]

\* What a peer can answer: "failed" (timeout, transport error, status other
\* than 200) or the recommendations of a 200 response, which need not
\* satisfy this service's schema
RemoteResponses(r) ==
    {"failed", <<>>, <<RItem("X", 9, 10, r)>>,
     <<RItem("W", 2, 5, r), RItem("X", 2, 5, r)>>,
     <<RItem("X", 3, 2, r)>>}

\* _query_region_recommendations (lines 489-508): <<>> for None and for an
\* empty list; RecommendationItem(**item) raises on an invalid score and
\* the handler at line 505 turns that into None
query_region_recommendations(response) ==
    IF response = "failed" THEN <<>>
    ELSE IF \E i \in 1..Len(response) : ~ValidUnit(response[i].score)
    THEN <<>>
    ELSE response

RemoteLists(r) ==
    {query_region_recommendations(x) : x \in RemoteResponses(r)}

\* Inference calls read the engine and leave it unchanged, so one outcome is
\* recorded per engine state: a call is taken when the last recorded
\* outcome is not that of an inference call.
Idle == ret.op \notin InferenceOps

GetUserRecommendations ==
    /\ Idle
    /\ \E user_id \in UserIds, count \in 1..MaxCount,
          exclude_purchased \in BOOLEAN, min_rating \in MinRatings,
          categories \in CategoryFilters :
        \E user_sim_scores \in UserSimRows(user_id), pop_order \in PopOrders :
        \E order \in ArgSort(user_sim_scores) :
          LET r == get_user_recommendations(
                       user_id, count, exclude_purchased, min_rating,
                       categories, user_sim_scores, order, pop_order)
          IN  ret' = [NoRet EXCEPT
                        !.op = "get_user_recommendations",
                        !.status = r.status, !.path = r.path,
                        !.items = r.items, !.user_id = user_id,
                        !.count = count,
                        !.exclude_purchased = exclude_purchased,
                        !.categories = categories,
                        !.min_rating = min_rating, !.passing = r.passing,
                        !.neighbours = r.neighbours, !.scores = r.scores,
                        !.sim_scores = user_sim_scores]
    /\ UNCHANGED <<store, engine, n_loads, origin, cache, fanout>>

GetSimilarProducts ==
    /\ Idle
    /\ \E product_id \in ProductIds, count \in 1..MaxCount :
        \E sim_scores \in ItemSimRows(product_id) :
        \E order \in ArgSort(sim_scores) :
          ret' = [NoRet EXCEPT
                    !.op = "get_similar_products", !.status = "ok",
                    !.items = get_similar_products(product_id, count,
                                                   sim_scores, order),
                    !.product_id = product_id, !.count = count,
                    !.sim_scores = sim_scores]
    /\ UNCHANGED <<store, engine, n_loads, origin, cache, fanout>>

GetTrendingProducts ==
    /\ Idle
    /\ \E count \in 1..MaxCount, category \in Categories,
          order \in PopOrders :
          ret' = [NoRet EXCEPT
                    !.op = "get_trending_products", !.status = "ok",
                    !.items = get_trending_products(count, category, order),
                    !.category = category, !.count = count]
    /\ UNCHANGED <<store, engine, n_loads, origin, cache, fanout>>

\* The outcomes the call of get_user_recommendations(user_id, count) at
\* line 466 can have in the current engine state
LocalOutcomes(user_id, count) ==
    UNION {UNION {{LET r == get_user_recommendations(
                                user_id, count, TRUE, 0, {},
                                user_sim_scores, order, pop_order)
                   IN  [status |-> r.status, items |-> r.items] :
                   pop_order \in PopOrders} :
                  order \in ArgSort(user_sim_scores)} :
           user_sim_scores \in UserSimRows(user_id)}

GetCrossRegionRecommendations ==
    /\ Idle
    /\ \E user_id \in {"A", "N"}, count \in 1..MaxCount :
        \E local \in LocalOutcomes(user_id, count) :
              \E regions \in RegionLists, method \in AggregationMethod,
                 west \in RemoteLists("us-west-1"),
                 east \in RemoteLists("eu-west-1") :
                LET responses == [r \in RemoteRegions |->
                                    IF r = "us-west-1" THEN west ELSE east]
                    r == get_cross_region_recommendations(
                             regions, count, method, responses, local)
                    remote == RemoteResults(<<>>, regions, responses)
                IN  ret' = [NoRet EXCEPT
                              !.op = "get_cross_region_recommendations",
                              !.status = r.status, !.items = r.items,
                              !.user_id = user_id, !.count = count,
                              !.regions = regions, !.method = method,
                              !.region_results = r.region_results,
                              !.produced =
                                  {remote[i].region : i \in 1..Len(remote)}
                                  \cup (IF local.items # <<>> THEN {REGION}
                                        ELSE {})]
    /\ UNCHANGED <<store, engine, n_loads, origin, cache, fanout>>

----------------------------------------------------------------------------
(* The peer requests of one get_cross_region_recommendations call, step by *)
(* step.  tasks lists the regions of the (region, task) pairs built at     *)
(* lines 445-454; status[i] is the state of the request of tasks[i]:       *)
(* "created" (a coroutine object that has not started), "in_flight" (its   *)
(* client.post was sent), "returned" or "failed" (error or timeout).       *)

FanoutRegions == {"us-east-1", "us-west-1", "eu-west-1", "ap-south-1", "sa-east-1"}

FanoutLists ==
    {l \in UNION {[1..n -> FanoutRegions] : n \in 0..3} :
        \A i, j \in 1..Len(l) : l[i] = l[j] => i = j}

\* lines 446-454: the regions a task is created for
RECURSIVE TaskRegions(_)
TaskRegions(regions) ==
    IF regions = <<>> THEN <<>>
    ELSE IF Head(regions) # REGION /\ Head(regions) \in REGION_ENDPOINTS
    THEN <<Head(regions)>> \o TaskRegions(Tail(regions))
    ELSE TaskRegions(Tail(regions))

\* lines 444-454: calling _query_region_recommendations only creates the
\* coroutine object; nothing is sent yet
FanoutStart ==
    /\ fanout.pc = "idle"
    /\ \E regions \in FanoutLists :
          LET tasks == TaskRegions(regions)
          IN  fanout' = [pc |-> "awaiting", tasks |-> tasks,
                         status |-> [i \in 1..Len(tasks) |-> "created"],
                         k |-> 1]
    /\ UNCHANGED <<store, engine, n_loads, origin, ret, cache>>

\* line 459: `await task` starts the coroutine of the k-th pair, which
\* sends its request (line 495)
FanoutAwait ==
    /\ fanout.pc = "awaiting"
    /\ fanout.k <= Len(fanout.tasks)
    /\ fanout.status[fanout.k] = "created"
    /\ fanout' = [fanout EXCEPT !.status[fanout.k] = "in_flight"]
    /\ UNCHANGED <<store, engine, n_loads, origin, ret, cache>>

\* the request in flight returns, fails or times out; the loop of line 457
\* moves to the next pair
FanoutPeerDone ==
    /\ fanout.pc = "awaiting"
    /\ fanout.k <= Len(fanout.tasks)
    /\ fanout.status[fanout.k] = "in_flight"
    /\ \E outcome \in {"returned", "failed"} :
          fanout' = [fanout EXCEPT !.status[fanout.k] = outcome,
                                   !.k = fanout.k + 1]
    /\ UNCHANGED <<store, engine, n_loads, origin, ret, cache>>

\* lines 466-473: the loop is over; local recommendations and aggregation
FanoutAggregate ==
    /\ fanout.pc = "awaiting"
    /\ fanout.k > Len(fanout.tasks)
    /\ fanout' = [fanout EXCEPT !.pc = "aggregated"]
    /\ UNCHANGED <<store, engine, n_loads, origin, ret, cache>>

----------------------------------------------------------------------------
(* API: the endpoints of app/api/recommendations.py *)

\* A handler body that raised HTTPException(code) inside its try block:
\* HTTPException is an Exception, so the handler's `except Exception`
\* (lines 77-79, 108-110) catches it and raises HTTPException(500)
HandlerStatus(code) == "500"

\* line 36: the cache key of a user request
CacheKey(user_id, count, region) ==
    <<user_id, count, IF region = NoneId THEN "default" ELSE region>>

\* redis_client.setex(cache_key, CACHE_TTL, value)
SetEx(c, key, value) ==
    [k \in DOMAIN c \cup {key} |-> IF k = key THEN value ELSE c[k]]

\* The outcomes engine.get_user_recommendations can have for a request in
\* the current engine state
UserOutcomes(user_id, count, exclude_purchased, min_rating, categories) ==
    UNION {UNION {{LET r == get_user_recommendations(
                                user_id, count, exclude_purchased,
                                min_rating, categories, user_sim_scores,
                                order, pop_order)
                   IN  [status |-> r.status, items |-> r.items] :
                   pop_order \in PopOrders} :
                  order \in ArgSort(user_sim_scores)} :
           user_sim_scores \in UserSimRows(user_id)}

SimilarOutcomes(product_id, count) ==
    UNION {{get_similar_products(product_id, count, sim_scores, order) :
            order \in ArgSort(sim_scores)} :
           sim_scores \in ItemSimRows(product_id)}

ApiUsers == {"A", "N"}
ApiProducts == {"X", "W"}
ApiCounts == {MaxCount}

\* POST /user/{user_id} (lines 23-79).  A cache entry is the stored response
\* (its recommendations) together with, as history, the request fields it
\* was generated for.
ApiUserRecommendations ==
    /\ \E user_id \in ApiUsers, count \in ApiCounts,
          exclude_purchased \in BOOLEAN, min_rating \in MinRatings,
          categories \in CategoryFilters, force_refresh \in BOOLEAN :
        LET cache_key == CacheKey(user_id, count, NoneId)
            this == [exclude_purchased |-> exclude_purchased,
                     min_rating |-> min_rating, categories |-> categories]
            req == [NoRet EXCEPT
                      !.op = "POST /user/{user_id}", !.user_id = user_id,
                      !.count = count,
                      !.exclude_purchased = exclude_purchased,
                      !.min_rating = min_rating, !.categories = categories,
                      !.force_refresh = force_refresh]
        IN
        IF cache_key \in DOMAIN cache /\ ~force_refresh
        THEN /\ ret' = [req EXCEPT
                          !.status = "200", !.path = "cache",
                          !.items = cache[cache_key].recommendations,
                          !.generated_for = cache[cache_key].generated_for]
             /\ UNCHANGED cache
        ELSE \E r \in UserOutcomes(user_id, count, exclude_purchased,
                                   min_rating, categories) :
             IF r.status = "raised"
             THEN /\ ret' = [req EXCEPT !.status = "500", !.path = "raised"]
                  /\ UNCHANGED cache
             ELSE IF r.items = <<>>
             THEN /\ ret' = [req EXCEPT !.status = HandlerStatus("404"),
                                        !.path = "empty"]
                  /\ UNCHANGED cache
             ELSE /\ ret' = [req EXCEPT !.status = "200", !.path = "items",
                                        !.items = r.items,
                                        !.generated_for = this]
                  /\ cache' = SetEx(cache, cache_key,
                                    [recommendations |-> r.items,
                                     generated_for |-> this])
    /\ UNCHANGED <<store, engine, n_loads, origin, fanout>>

\* POST /similar-products/{product_id} (lines 81-110)
ApiSimilarProducts ==
    /\ \E product_id \in ApiProducts, count \in ApiCounts :
        \E similar_products \in SimilarOutcomes(product_id, count) :
          ret' = [NoRet EXCEPT
                    !.op = "POST /similar-products/{product_id}",
                    !.product_id = product_id, !.count = count,
                    !.status = IF similar_products = <<>>
                               THEN HandlerStatus("404") ELSE "200",
                    !.path = IF similar_products = <<>> THEN "empty"
                             ELSE "items",
                    !.items = similar_products]
    /\ UNCHANGED <<store, engine, n_loads, origin, cache, fanout>>

\* a cache entry reaches its time to live (CACHE_TTL)
ExpireCache ==
    /\ \E key \in DOMAIN cache :
          cache' = [k \in DOMAIN cache \ {key} |-> cache[k]]
    /\ UNCHANGED <<store, engine, n_loads, origin, ret, fanout>>

----------------------------------------------------------------------------

NoBucket == [exists |-> FALSE, svd |-> NoneId, user_sim |-> NoneId,
             item_sim |-> NoneId]

\* Artifacts a previous run of the engine saved after fitting data set d
SavedBy(d) == [exists |-> TRUE, svd |-> d, user_sim |-> d, item_sim |-> d]

\* The engine as __init__ leaves it (lines 26-45)
Constructed ==
    /\ user_item_matrix = NoneId
    /\ product_features = NoneId
    /\ svd_model = NoneId
    /\ user_similarities = NoneId
    /\ item_similarities = NoneId
    /\ models_loaded = FALSE
    /\ n_loads = 0
    /\ origin = [f \in {"matrix", "features", "svd", "user_sim", "item_sim"}
                   |-> 0]

Init ==
    /\ processed_bucket \in [matrix : DatasetIds \cup {NoneId},
                             features : FeatureIds \cup {NoneId, BadFeatures}]
    /\ models_bucket \in {NoBucket, SavedBy("D1")}
    /\ Constructed
    /\ ret = NoRet
    /\ cache = <<>>
    /\ fanout = NoFanout

\* The model lifecycle against a store that other writers change
Next ==
    \/ StartupLoad
    \/ refresh_models
    \/ PutMatrix
    \/ PutFeatures
    \/ RemoveModels

Spec == Init /\ [][Next]_vars

\* The engine serving requests before and after its start-up load
NextServe ==
    \/ StartupLoad
    \/ GetUserRecommendations
    \/ GetSimilarProducts
    \/ GetTrendingProducts
    \/ GetCrossRegionRecommendations

SpecServe == Init /\ [][NextServe]_vars

\* The HTTP endpoints in front of the engine
NextApi ==
    \/ StartupLoad
    \/ ApiUserRecommendations
    \/ ApiSimilarProducts
    \/ ExpireCache

\* the stores the endpoints are explored on: the smaller data sets
InitApi ==
    /\ processed_bucket \in [matrix : {NoneId, "D1", "D2"},
                             features : {NoneId, "F1"}]
    /\ models_bucket \in {NoBucket, SavedBy("D1")}
    /\ Constructed
    /\ ret = NoRet
    /\ cache = <<>>
    /\ fanout = NoFanout

SpecApi == InitApi /\ [][NextApi]_vars

\* One cross-region call, its peer requests step by step
NextFanout ==
    \/ FanoutStart
    \/ FanoutAwait
    \/ FanoutPeerDone
    \/ FanoutAggregate

InitFanout ==
    /\ processed_bucket = [matrix |-> NoneId, features |-> NoneId]
    /\ models_bucket = NoBucket
    /\ Constructed
    /\ ret = NoRet
    /\ cache = <<>>
    /\ fanout = NoFanout

SpecFanout == InitFanout /\ [][NextFanout]_vars

\* The aggregator applied to every map of per-region results
AggRegions == {"us-west-1", "us-east-1"}

AggItems(r) ==
    {RItem(p, sc[1], sc[2], r) : p \in {"X", "Y"},
                                 sc \in {<<2, 5>>, <<9, 10>>}}

\* the non-empty lists a region can contribute (line 460 and line 467 keep
\* empty results out of the dict)
AggLists(r) ==
    UNION {[1..n -> AggItems(r)] : n \in 1..MaxRecs}

AggInputs ==
    {<<>>}
    \cup {<<[region |-> r, recs |-> l]>> : r \in AggRegions, l \in
            UNION {AggLists(q) : q \in AggRegions}}
    \cup {<<[region |-> r1, recs |-> l1], [region |-> r2, recs |-> l2]>> :
            r1 \in AggRegions, r2 \in AggRegions,
            l1 \in UNION {AggLists(q) : q \in AggRegions},
            l2 \in UNION {AggLists(q) : q \in AggRegions}}

WellFormedInput(rr) ==
    /\ \A i \in 1..Len(rr) : \A k \in 1..Len(rr[i].recs) :
          rr[i].recs[k].region = rr[i].region
    /\ \A i, j \in 1..Len(rr) : rr[i].region = rr[j].region => i = j

InitAgg ==
    /\ processed_bucket = [matrix |-> NoneId, features |-> NoneId]
    /\ models_bucket = NoBucket
    /\ Constructed
    /\ cache = <<>>
    /\ fanout = NoFanout
    /\ \E rr \in {x \in AggInputs : WellFormedInput(x)},
          count \in 1..MaxCount, method \in AggregationMethod :
          ret = [NoRet EXCEPT !.op = "aggregate_input",
                              !.region_results = rr, !.count = count,
                              !.method = method]

Aggregate ==
    /\ ret.op = "aggregate_input"
    /\ ret' = [ret EXCEPT
                 !.op = "_aggregate_cross_region_results",
                 !.items = aggregate_cross_region_results(
                               ret.region_results, ret.count, ret.method)]
    /\ UNCHANGED <<store, engine, n_loads, origin, cache, fanout>>

NextAgg == Aggregate

SpecAgg == InitAgg /\ [][NextAgg]_vars

----------------------------------------------------------------------------
(* Properties *)

Min(a, b) == IF a < b THEN a ELSE b

RECURSIVE Concat(_)
Concat(rr) == IF rr = <<>> THEN <<>> ELSE Head(rr).recs \o Concat(Tail(rr))

NonIncreasing(out) ==
    \A i \in 1..(Len(out) - 1) : ~RatLess(out[i].score, out[i + 1].score)

DistinctIds(out) ==
    \A i, j \in 1..Len(out) : out[i].product_id = out[j].product_id => i = j

\* C1: with exclude_purchased=true, get_user_recommendations returns no
\* product for which the user's own matrix row holds an observed value,
\* whichever path produced the item.
C1_NoPurchasedReturned ==
    (/\ ret.op = "get_user_recommendations"
     /\ ret.status = "ok"
     /\ ret.exclude_purchased
     /\ user_item_matrix # NoneId
     /\ ret.user_id \in Range(Dataset(user_item_matrix).index))
    => \A i \in 1..Len(ret.items) :
          ret.items[i].product_id
              \notin DOMAIN Dataset(user_item_matrix).cell[ret.user_id]

\* C2: every state a reader can observe on a ready engine holds an
\* interaction matrix, product features and similarity matrices that were
\* all assigned by the same load_models call.
C2_SnapshotFromOneLoad ==
    (models_loaded /\ user_item_matrix # NoneId)
    => /\ origin["user_sim"] = origin["matrix"]
       /\ origin["item_sim"] = origin["matrix"]
       /\ (product_features # NoneId
             => origin["features"] = origin["matrix"])

\* C3: a refresh_models call that fails on a ready engine leaves the
\* matrix, the features, the SVD model and both similarity matrices as they
\* were, and the engine ready.
C3_FailedRefreshKeepsSnapshot ==
    [][(/\ models_loaded
        /\ n_loads' = n_loads + 1
        /\ ret'.op = "refresh_models"
        /\ ret'.status = "raised")
       => engine' = engine]_vars

\* C4: load_models finishes without training only when all three artifacts
\* were read from the model store during that call.
C4_AdoptOnlyWhenAllRead ==
    (ret.op \in LoadOps /\ ret.status = "ok" /\ ~ret.trained)
    => ret.read = Artifacts

\* C5: whenever models_loaded is true, user_similarities has one row per
\* row of the interaction matrix and item_similarities one row per column.
C5_SimilarityShapes ==
    (models_loaded /\ user_item_matrix # NoneId)
    => /\ NRows(user_similarities) = NRows(user_item_matrix)
       /\ NCols(item_similarities) = NCols(user_item_matrix)

C7_NotReadyNoData ==
    (ret.op \in InferenceOps /\ ~models_loaded) => ret.items = <<>>

\* C8: when at least one queried region produced results,
\* get_cross_region_recommendations returns no error and aggregates exactly
\* the regions that produced results.
C8_RegionFailuresIsolated ==
    (ret.op = "get_cross_region_recommendations" /\ ret.produced # {})
    => /\ ret.status = "ok"
       /\ {ret.region_results[i].region :
             i \in 1..Len(ret.region_results)} = ret.produced

\* C9: MERGE returns each product id once, the instance retained being the
\* first in region order, in non-increasing score order, and
\* min(count, number of distinct product ids) entries.
C9_MergeAggregation ==
    (ret.op = "_aggregate_cross_region_results" /\ ret.method = "merge")
    => LET out == ret.items
           all == Concat(ret.region_results)
       IN  /\ DistinctIds(out)
           /\ \A i \in 1..Len(out) :
                 \E k \in 1..Len(all) :
                    /\ all[k] = out[i]
                    /\ \A h \in 1..(k - 1) :
                          all[h].product_id # out[i].product_id
           /\ NonIncreasing(out)
           /\ Len(out) = Min(ret.count, Cardinality(Ids(all)))

C9_Witness ==
    /\ ret.op = "_aggregate_cross_region_results"
    /\ ret.method = "merge"
    /\ Len(ret.region_results) = 2
    /\ \E i \in 1..Len(ret.region_results[1].recs),
          j \in 1..Len(ret.region_results[2].recs) :
          /\ ret.region_results[1].recs[i].product_id
               = ret.region_results[2].recs[j].product_id
          /\ RatLess(ret.region_results[1].recs[i].score,
                     ret.region_results[2].recs[j].score)
          /\ \E k \in 1..Len(ret.items) :
                ret.items[k] = ret.region_results[1].recs[i]
    /\ Cardinality(Ids(Concat(ret.region_results))) > ret.count

\* C10: HIGHEST_SCORE returns at most one entry per product id, carrying
\* the maximum score of that product id over all regions, in non-increasing
\* score order, and min(count, number of distinct product ids) entries.
C10_HighestScoreAggregation ==
    (ret.op = "_aggregate_cross_region_results"
     /\ ret.method = "highest_score")
    => LET out == ret.items
           all == Concat(ret.region_results)
       IN  /\ DistinctIds(out)
           /\ \A i \in 1..Len(out) :
                 /\ \E k \in 1..Len(all) :
                       /\ all[k].product_id = out[i].product_id
                       /\ all[k].score = out[i].score
                 /\ \A k \in 1..Len(all) :
                       all[k].product_id = out[i].product_id
                       => ~RatLess(out[i].score, all[k].score)
           /\ NonIncreasing(out)
           /\ Len(out) = Min(ret.count, Cardinality(Ids(all)))

C10_Witness ==
    /\ ret.op = "_aggregate_cross_region_results"
    /\ ret.method = "highest_score"
    /\ Len(ret.region_results) = 2
    /\ \E i \in 1..Len(ret.region_results[1].recs),
          j \in 1..Len(ret.region_results[2].recs) :
          /\ ret.region_results[1].recs[i].product_id
               = ret.region_results[2].recs[j].product_id
          /\ RatLess(ret.region_results[1].recs[i].score,
                     ret.region_results[2].recs[j].score)
          /\ \E k \in 1..Len(ret.items) :
                ret.items[k] = ret.region_results[2].recs[j]
    /\ Cardinality(Ids(Concat(ret.region_results))) > ret.count

\* C11: for WEIGHTED_AVERAGE and ROUND_ROBIN the aggregator returns exactly
\* the list MERGE returns for the same region results and count.
C11_UnknownMethodIsMerge ==
    (/\ ret.op = "_aggregate_cross_region_results"
     /\ ret.method \in {"weighted_average", "round_robin"})
    => ret.items = MergeAggregation(ret.region_results, ret.count)

\* a fallback call whose MERGE result differs from the HIGHEST_SCORE result
C11_Witness ==
    /\ ret.op = "_aggregate_cross_region_results"
    /\ ret.method = "round_robin"
    /\ ret.items # <<>>
    /\ ret.items # HighestScoreAggregation(ret.region_results, ret.count)

\* C12: on a ready engine a user_id that is not in the row index gets
\* exactly the popularity ranker's list for the same count, categories and
\* min_rating, and no error.
C12_ColdStartIsPopular ==
    (/\ ret.op = "get_user_recommendations"
     /\ models_loaded
     /\ user_item_matrix # NoneId
     /\ ret.user_id \notin Range(Dataset(user_item_matrix).index))
    => /\ ret.status = "ok"
       /\ \E o \in PopOrders :
             ret.items = get_popular_recommendations(
                             ret.count, ret.categories, ret.min_rating, o)

\* an unknown user asking with a category filter that removes a product
C12_Witness ==
    /\ ret.op = "get_user_recommendations"
    /\ models_loaded
    /\ user_item_matrix = "D3"
    /\ ret.user_id = "N"
    /\ ret.categories # {}
    /\ ret.items # <<>>
    /\ \E o \in PopOrders :
          ret.items # get_popular_recommendations(ret.count, {}, 0, o)

C14_AtMostCountDistinct ==
    (ret.op = "get_user_recommendations" /\ ret.status = "ok")
    => /\ Len(ret.items) <= ret.count
       /\ DistinctIds(ret.items)

\* neighbour-scored items followed by popularity padding, the popularity
\* ranker having proposed a product that was already selected
C14_Witness ==
    /\ ret.op = "get_user_recommendations"
    /\ ret.path = "personal"
    /\ ret.passing # <<>>
    /\ ret.items # <<>>
    /\ ret.items[1] = ret.passing[1]
    /\ \E o \in PopOrders :
          LET popular_recs == get_popular_recommendations(
                                  ret.count - 1, ret.categories,
                                  ret.min_rating, o)
          IN  /\ popular_recs # <<>>
              /\ popular_recs[1].product_id = ret.items[1].product_id

\* C15: when at least count neighbour-scored candidates pass the category
\* and rating filters, get_user_recommendations returns the products of
\* the count highest-scored of them, in that order.
C15_FilterBeforeCut ==
    (/\ ret.op = "get_user_recommendations"
     /\ ret.path = "personal"
     /\ Len(ret.passing) >= ret.count)
    => [i \in 1..Len(ret.items) |-> ret.items[i].product_id]
         = [i \in 1..ret.count |-> ret.passing[i].product_id]

\* C16: with a non-empty categories filter every item returned by
\* get_user_recommendations (popularity ranker's items included) has a
\* category that is a member of categories.
C16_CategoryFilter ==
    (/\ ret.op = "get_user_recommendations"
     /\ ret.categories # {})
    => \A i \in 1..Len(ret.items) : ret.items[i].category \in ret.categories

\* C17: every item returned by get_user_recommendations (the popularity
\* ranker's items included) or by the cross-region aggregate has a score s
\* with 0 <= s <= 1.
C17_ScoreInUnitInterval ==
    (ret.op \in {"get_user_recommendations",
                 "get_cross_region_recommendations"})
    => \A i \in 1..Len(ret.items) :
          LET sc == ret.items[i].score
          IN  sc[2] > 0 /\ 0 <= sc[1] /\ sc[1] <= sc[2]

\* a list returned from a matrix whose weights are zero or negative
C17_Witness ==
    /\ ret.op = "get_user_recommendations"
    /\ user_item_matrix = "D2"
    /\ models_loaded
    /\ ret.items # <<>>

\* C18: on a ready engine no entry returned by get_similar_products has the
\* queried product_id.
C18_SimilarExcludesSelf ==
    (ret.op = "get_similar_products" /\ models_loaded)
    => \A i \in 1..Len(ret.items) : ret.items[i].product_id # ret.product_id

\* C19: get_similar_products returns an empty list for a product_id that is
\* not a column; for a column of a matrix with m other products it returns
\* min(count, m) entries, which are other products, at least as similar to
\* it as every product left out, in non-increasing similarity order.
C19_SimilarTopCount ==
    (/\ ret.op = "get_similar_products"
     /\ models_loaded
     /\ user_item_matrix # NoneId
     /\ NCols(item_similarities) = NCols(user_item_matrix))
    => LET columns == Dataset(user_item_matrix).columns
           out == ret.items
       IN  IF ret.product_id \notin Range(columns)
           THEN out = <<>>
           ELSE /\ Len(out) = Min(ret.count, Len(columns) - 1)
                /\ DistinctIds(out)
                /\ NonIncreasing(out)
                /\ \A i \in 1..Len(out) :
                      /\ out[i].product_id \in Range(columns)
                      /\ out[i].product_id # ret.product_id
                      /\ out[i].score
                           = Rat(ret.sim_scores[IndexOf(columns,
                                                        out[i].product_id)],
                                 10)
                /\ \A k \in 1..Len(columns) :
                      (columns[k] # ret.product_id
                       /\ columns[k] \notin Ids(out))
                      => \A i \in 1..Len(out) :
                            ~RatLess(out[i].score,
                                     Rat(ret.sim_scores[k], 10))

\* C20: a load_models call that follows a completed load_models call, the
\* data source and the model store being as that call left them (here: with
\* all three artifacts stored), leaves svd_model, user_similarities and
\* item_similarities equal, trains nothing and uploads nothing.
C20_ReloadIsIdempotent ==
    [][(/\ ret.op \in LoadOps
        /\ ret.status = "ok"
        /\ ret.store_after = <<processed_bucket, models_bucket>>
        /\ models_bucket.exists
        /\ models_bucket.svd # NoneId
        /\ models_bucket.user_sim # NoneId
        /\ models_bucket.item_sim # NoneId
        /\ n_loads' = n_loads + 1)
       => /\ svd_model' = svd_model
          /\ user_similarities' = user_similarities
          /\ item_similarities' = item_similarities
          /\ ~ret'.trained
          /\ models_bucket' = models_bucket]_vars

\* C21: the regions whose results enter the cross-region aggregate
\* (regions_queried) all belong to the requested regions list.
C21_RegionsQueriedWereRequested ==
    (ret.op = "get_cross_region_recommendations" /\ ret.status = "ok")
    => {ret.region_results[i].region : i \in 1..Len(ret.region_results)}
         \subseteq Range(ret.regions)

\* C23: when load_models finishes with models_loaded = true after having
\* trained, the model store holds all three artifacts.
C23_TrainedModelsArePersisted ==
    (/\ ret.op \in LoadOps
     /\ ret.status = "ok"
     /\ ret.trained
     /\ models_loaded)
    => LET saved == ret.store_after[2]
       IN  /\ saved.exists
           /\ saved.svd # NoneId
           /\ saved.user_sim # NoneId
           /\ saved.item_sim # NoneId

\* C22: when the engine returns an empty list, the user-recommendation
\* endpoint and the similar-products endpoint answer 404.
C22_EmptyResultIs404 ==
    (/\ ret.op \in {"POST /user/{user_id}",
                    "POST /similar-products/{product_id}"}
     /\ ret.path = "empty")
    => ret.status = "404"

\* C30: a response served from the cache was generated for a request with
\* the same exclude_purchased, min_rating and categories (user_id and count
\* being part of the key).
C30_CacheHitMatchesRequest ==
    (ret.op = "POST /user/{user_id}" /\ ret.path = "cache")
    => ret.generated_for = [exclude_purchased |-> ret.exclude_purchased,
                            min_rating |-> ret.min_rating,
                            categories |-> ret.categories]

\* C24: no peer request waits for another peer's request (while one
\* request is in flight no other request is still unsent), and aggregation
\* starts only when every issued request has returned or failed.
C24_PeersQueriedConcurrently ==
    /\ \A i, j \in 1..Len(fanout.tasks) :
          ~(fanout.status[i] = "in_flight" /\ fanout.status[j] = "created")
    /\ fanout.pc = "aggregated"
         => \A i \in 1..Len(fanout.tasks) :
               fanout.status[i] \in {"returned", "failed"}

\* C25: for a user of the matrix the neighbours whose ratings contribute
\* are exactly the other users whose similarity to the target is at least
\* SIMILARITY_THRESHOLD (every data set has fewer than 20 other users); the
\* target itself never contributes.
C25_ContributingNeighbours ==
    (/\ ret.op = "get_user_recommendations"
     /\ ret.path = "personal"
     /\ NRows(user_similarities) = NRows(user_item_matrix))
    => LET index == Dataset(user_item_matrix).index
       IN  ret.neighbours
             = {index[i] : i \in {j \in 1..Len(index) :
                                    /\ index[j] # ret.user_id
                                    /\ ret.sim_scores[j]
                                         >= SIMILARITY_THRESHOLD}}

\* C26: the score accumulated for a product is the sum, over the
\* contributing neighbours with an observed value for it, of similarity
\* times rating; entries exist for exactly the products some contributing
\* neighbour has a value for, minus the target's own products when
\* exclude_purchased is set.
C26_AccumulatedScores ==
    (ret.op = "get_user_recommendations" /\ ret.path = "personal")
    => LET M == Dataset(user_item_matrix)
           raters(p) == {n \in ret.neighbours : p \in DOMAIN M.cell[n]}
           own == IF ret.exclude_purchased THEN DOMAIN M.cell[ret.user_id]
                  ELSE {}
       IN  /\ {ret.scores[i].product_id : i \in 1..Len(ret.scores)}
                = {p \in Range(M.columns) : raters(p) # {}} \ own
           /\ \A i, j \in 1..Len(ret.scores) :
                 ret.scores[i].product_id = ret.scores[j].product_id => i = j
           /\ \A i \in 1..Len(ret.scores) :
                 LET p == ret.scores[i].product_id
                 IN  ret.scores[i].tenths
                       = SumOver([n \in raters(p) |->
                                    ret.sim_scores[IndexOf(M.index, n)]
                                      * M.cell[n][p]],
                                 raters(p))

\* two neighbours with a value for the same product
C26_Witness ==
    /\ ret.op = "get_user_recommendations"
    /\ ret.path = "personal"
    /\ Cardinality(ret.neighbours) = 2
    /\ \E i \in 1..Len(ret.scores) :
          \A n \in ret.neighbours :
             ret.scores[i].product_id
                 \in DOMAIN Dataset(user_item_matrix).cell[n]

\* C27: the popularity fallback returns items in non-increasing order of
\* the product's summed interaction weight, each score is that sum divided
\* by the maximum sum, and a product with the maximum sum that passes the
\* filters is first with score exactly 1.
C27_PopularOrderAndScore ==
    (/\ ret.op = "get_user_recommendations"
     /\ ret.path \in {"cold_start", "fallback"}
     /\ ret.status = "ok"
     /\ user_item_matrix # NoneId)
    => LET M == Dataset(user_item_matrix)
           pop == Popularity(M)
           sum(p) == pop[IndexOf(M.columns, p)]
           passes(p) ==
               \/ ret.categories = {}
               \/ product_features = NoneId
               \/ p \notin DOMAIN Features(product_features)
               \/ Features(product_features)[p] \in ret.categories
           top == {p \in Range(M.columns) : sum(p) = MaxOf(pop) /\ passes(p)}
           items == ret.items
       IN  /\ \A i, j \in 1..Len(items) :
                 i < j => sum(items[i].product_id) >= sum(items[j].product_id)
           /\ \A i \in 1..Len(items) :
                 /\ items[i].score[2] # 0
                 /\ items[i].score[1] * MaxOf(pop)
                      = sum(items[i].product_id) * items[i].score[2]
           /\ top # {} => /\ items # <<>>
                          /\ items[1].product_id \in top
                          /\ items[1].score[1] = items[1].score[2]

\* C28: the popularity fallback returns exactly min(count, f) items, f the
\* number of filter-passing products among the 2*count most popular, and
\* returns no product ranked below position 2*count.
C28_PopularReturnsMinCountF ==
    (/\ ret.op = "get_user_recommendations"
     /\ ret.path \in {"cold_start", "fallback"}
     /\ ret.status = "ok"
     /\ user_item_matrix # NoneId)
    => LET M == Dataset(user_item_matrix)
           passes(p) ==
               \/ ret.categories = {}
               \/ product_features = NoneId
               \/ p \notin DOMAIN Features(product_features)
               \/ Features(product_features)[p] \in ret.categories
       IN  \E order \in PopOrders :
             LET head == {M.columns[order[k]] :
                            k \in 1..Min(ret.count * OVERSAMPLE, Len(order))}
                 f == Cardinality({p \in head : passes(p)})
             IN  /\ Len(ret.items) = Min(ret.count, f)
                 /\ Ids(ret.items) \subseteq head

\* C29: get_trending_products(count, category) returns at most count
\* items in non-increasing interaction_count order, every trend_score is a
\* number >= 0, and with a category given every item carries that category
\* (so no product of unknown category is returned).
C29_TrendingContract ==
    ret.op = "get_trending_products"
    => /\ Len(ret.items) <= ret.count
       /\ \A i, j \in 1..Len(ret.items) :
             i < j => ret.items[i].interaction_count
                        >= ret.items[j].interaction_count
       /\ \A i \in 1..Len(ret.items) :
             /\ ret.items[i].score[2] > 0
             /\ ret.items[i].score[1] >= 0
             /\ ret.category # NoneId
                  => ret.items[i].category = ret.category

\* a category request answered while a more popular product of another
\* category and a product of unknown category are within the ranking head
C29_Witness ==
    /\ ret.op = "get_trending_products"
    /\ ret.category = "books"
    /\ ret.count = 2
    /\ Len(ret.items) = 1
    /\ user_item_matrix = "D3"
    /\ product_features = "F1"

====
